---- MODULE Spec2Model ----
(***************************************************************************)
(* A model of swc-ts-stack-checker (src/src/main.rs): main resolves a work *)
(* set of repositories through the hosting API, spawns one task per        *)
(* repository (handle: git_pull, then check_all_files, which hands files   *)
(* to check_file on a blocking worker), and awaits the tasks in order.     *)
(***************************************************************************)
EXTENDS Naturals, Sequences, FiniteSets, TLC

\* ------------------------------------------------------------------ bounds

\* Largest work set (repositories, hence spawned tasks) of an enumerated run.
MaxWork == 2

\* ------------------------------------------------------------ input universe

\* File and directory names are sequences of characters; a path is a sequence
\* of names (its components).
DotTs == <<".", "t", "s">>

NameA == <<"a">> \o DotTs

NameB == <<"b">> \o DotTs

NameD == <<"d">>

DotData == <<".", "d", "a", "t", "a">>

\* The name tempfile gives a directory: its default prefix ".tmp" and a
\* random part, here one character standing for the n-th random string.
RandomChars == <<"1", "2", "3", "4", "5", "6", "7", "8">>

TmpName(n) == <<".", "t", "m", "p", RandomChars[n]>>

\* struct Repo { fork, archived, clone_url }
Repo(url, fork, archived) == [clone_url |-> url, fork |-> fork, archived |-> archived]

\* struct Org { repos_url, login }: only login is read.
Orgs == {"o1", "o2", "o3"}

\* What the hosting API holds: the organizations the token sees ...
VisibleOrgs == <<"o1", "o2", "o3">>

\* ... and the repositories of each: o3 has a fork and an archived one.
OrgRepos(org) ==
    CASE org = "o1" -> << Repo("u1", FALSE, FALSE) >>
      [] org = "o2" -> << Repo("u2", FALSE, FALSE) >>
      [] OTHER      -> << Repo("u3", TRUE, FALSE), Repo("u4", FALSE, TRUE) >>

\* A directory entry: its type as DirEntry::file_type reports it (a symlink
\* is neither a directory nor a file) and, for a file, its content.
Node(ty, content) == [ty |-> ty, content |-> content]

\* The working tree behind each clone URL, as a function from the paths
\* relative to the tree's root to the entries. u1 and u2 name their files the
\* usual way; u3 and u4 hold files whose whole name is ".ts".
RemoteTree(url) ==
    CASE url = "u1" ->
           (<< NameA >> :> Node("file", "valid")) @@
           (<< NameB >> :> Node("file", "malformed"))
      [] url = "u2" ->
           (<< NameB >> :> Node("file", "valid")) @@
           (<< NameD >> :> Node("dir", "none")) @@
           (<< NameD, NameA >> :> Node("file", "malformed"))
      [] url = "u3" ->
           (<< DotTs >> :> Node("file", "malformed")) @@
           (<< NameD >> :> Node("dir", "none")) @@
           (<< NameD, DotTs >> :> Node("file", "valid"))
      [] OTHER ->
           (<< DotTs >> :> Node("file", "undecodable")) @@
           (<< NameA >> :> Node("symlink", "none"))

\* A directory git left empty.
EmptyTree == [p \in {} |-> Node("file", "valid")]

\* ------------------------------------------------------------------- state

VARIABLES
    token,       \* whether GITHUB_TOKEN is set
    args,        \* env::args(): the program name, then the organization names
    dataExists,  \* whether the directory .data exists under the current one
    mainPc,      \* where main is
    orgs,        \* list_repositories: the organizations still to visit
    acc,         \* the Vec<Repo> built so far (repos of main, buf of list_repositories)
    repos,       \* main's repos: the work set, once resolved
    nxt,         \* main: the task the next task.await joins, the repo the next spawn takes
    pl,          \* the spawned tasks, in spawn order: one record per handle(repo)
    exited,      \* the runtime has shut down and the process has exited
    apiLog,      \* history: the successful repository listings, in call order
    apiFailed,   \* history: a hosting-API call failed
    firstFail    \* history: the task whose handle returned Err first in time, or 0

vars == <<token, args, dataExists, mainPc, orgs, acc, repos, nxt, pl, exited,
          apiLog, apiFailed, firstFail>>

\* ---------------------------------------------------------------- helpers

Range(s) == {s[i] : i \in DOMAIN s}

\* All sequences over S of length at most n.
SeqsUpTo(S, n) == UNION {[1..k -> S] : k \in 0..n}

RECURSIVE FlattenDedup(_)
\* A flatten that keeps one copy of each repository.
FlattenDedup(ss) ==
    IF ss = <<>> THEN <<>>
    ELSE LET front == FlattenDedup(SubSeq(ss, 1, Len(ss) - 1))
         IN front \o SelectSeq(ss[Len(ss)], LAMBDA r : r \notin Range(front))

RECURSIVE Flatten(_)
\* repos.into_iter().flatten().collect()
Flatten(ss) == IF ss = <<>> THEN <<>> ELSE Head(ss) \o Flatten(Tail(ss))

RECURSIVE SelectSeqBy(_, _)
SelectSeqBy(s, keep) ==
    IF s = <<>> THEN <<>>
    ELSE (IF Head(s) \in keep THEN <<Head(s)>> ELSE <<>>) \o SelectSeqBy(Tail(s), keep)

\* The closure given to filter in list_repositories.
KeepRepoArchivedOnly(repo) == ~repo.archived

KeepRepo(repo) == ~repo.archived /\ ~repo.fork

\* repos.into_iter().filter(|repo| !repo.archived && !repo.fork)
FilterRepos(rs) == SelectSeqBy(rs, {r \in Range(rs) : KeepRepo(r)})

\* What one call of the hosting API can answer: an error, or a body that is
\* absent (None) or holds the list.
ApiAnswers(list) ==
    { [ok |-> FALSE, some |-> FALSE, body |-> <<>>],
      [ok |-> TRUE,  some |-> FALSE, body |-> <<>>],
      [ok |-> TRUE,  some |-> TRUE,  body |-> list] }

\* repos_of_org: Err when the call fails, else repos.unwrap_or_default()
ReposOfOrg(ans) == [ok |-> ans.ok, repos |-> IF ans.some THEN ans.body ELSE <<>>]

\* The ? operator: the caller goes on with the value of an Ok, and returns
\* the error of an Err.
IsOkIgnoringErr(res) == TRUE

IsOk(res) == res.ok

\* ------------------------------------------------------------------- paths

\* Path::ends_with: child's components are the last components of path.
PathEndsWith(path, child) ==
    /\ Len(child) <= Len(path)
    /\ SubSeq(path, Len(path) - Len(child) + 1, Len(path)) = child

\* Path::new(".ts") has one component, the name ".ts".
TsPattern == << DotTs >>

\* ---------------------------------------------------------------- one task

\* The task spawn creates for handle(repo), before it is first polled.
NewTask(repo) ==
    [ repo      |-> repo,
      pc        |-> "spawned",  \* spawned, pulling, walking, checking, done, cancelled
      ws        |-> 0,          \* the TempDir's random name (0: none was created)
      wsState   |-> "none",     \* none, live (on disk), deleted
      dels      |-> 0,          \* how often the directory was removed
      git       |-> "none",     \* how the git process ended: spawn_err, nonzero, ok
      stack     |-> <<>>,       \* the nested check_all_files calls, innermost last
      cur       |-> <<>>,       \* the path moved into the check_file in flight
      blk       |-> FALSE,      \* a check_file of this task runs on a blocking worker
      result    |-> "none",     \* what handle returned: ok, err
      err       |-> "none",     \* which step made the error
      validated |-> {},         \* history: the files given to check_file
      outcomes  |-> {},         \* history: what each check_file call ended with
      diags     |-> {} ]        \* history: the files whose diagnostic was emitted

Tasks == DOMAIN pl

\* The content of the task's directory: git fills it when it succeeds.
WsTree(p) == IF p.git = "ok" THEN RemoteTree(p.repo.clone_url) ELSE EmptyTree

\* dir.path(): cur_dir/.data/<random name>, then the entry's own components.
FullPath(p, rel) == << DotData, TmpName(p.ws) >> \o rel

\* The part of such a path below the task's directory.
RelPath(full) == SubSeq(full, 3, Len(full))

\* The entries read_dir(dir) yields.
Children(tree, dir) ==
    {q \in DOMAIN tree : Len(q) = Len(dir) + 1 /\ SubSeq(q, 1, Len(dir)) = dir}

\* The random names TempDir may take: those no directory on disk has.
FreeNamesUnchecked == 1..MaxWork

FreeNames == (1..MaxWork) \ {pl[j].ws : j \in {k \in Tasks : pl[k].wsState = "live"}}

\* Drop for TempDir: the directory is removed, with all it holds.
DropTempDirLeak(p) == p

DropTempDir(p) ==
    IF p.wsState = "live"
    THEN [p EXCEPT !.wsState = "deleted", !.dels = @ + 1, !.ws = 0]
    ELSE p

\* A walk whose recursive call's error ends that call only: the enclosing
\* loop goes on with its next entry.
ReturnInnerCallOnly(p, result, err) ==
    IF err = "walk" /\ Len(p.stack) > 1
    THEN [p EXCEPT !.stack = SubSeq(@, 1, Len(@) - 1), !.err = err]
    ELSE [DropTempDir(p) EXCEPT !.pc = "done", !.result = result, !.err = err,
                                !.stack = <<>>]

\* handle returns: its locals (dir) are dropped.
Return(p, result, err) ==
    [DropTempDir(p) EXCEPT !.pc = "done", !.result = result, !.err = err,
                           !.stack = <<>>]

\* ---------------------------------------------------------------- check_file

\* A check_file that reports the syntax error as an Err value.
CheckFileReturnsErr(present, content, path) ==
    IF ~present \/ content = "undecodable"
    THEN [kind |-> "err", path |-> path, diag |-> FALSE]
    ELSE IF content = "malformed"
    THEN [kind |-> "err", path |-> path, diag |-> TRUE]
    ELSE [kind |-> "ok", path |-> <<>>, diag |-> FALSE]

\* A check_file that emits the diagnostic and goes on.
CheckFileLogsOnly(present, content, path) ==
    IF ~present \/ content = "undecodable"
    THEN [kind |-> "err", path |-> path, diag |-> FALSE]
    ELSE IF content = "malformed"
    THEN [kind |-> "ok", path |-> <<>>, diag |-> TRUE]
    ELSE [kind |-> "ok", path |-> <<>>, diag |-> FALSE]

\* check_file(path): load_file fails on a file that is gone or is not UTF-8,
\* and the error carries the path; a syntax error is emitted through the
\* handler and then expect panics, with a message that names no file; else Ok.
CheckFile(present, content, path) ==
    IF ~present \/ content = "undecodable"
    THEN [kind |-> "err", path |-> path, diag |-> FALSE]
    ELSE IF content = "malformed"
    THEN [kind |-> "panic", path |-> <<>>, diag |-> TRUE]
    ELSE [kind |-> "ok", path |-> <<>>, diag |-> FALSE]

\* ------------------------------------------------------------------- Init

\* The command lines enumerated: the program name alone (full discovery), or
\* with organization names whose repositories number at most MaxWork.
ArgChoices ==
    { <<"prog">> \o a : a \in
        { b \in SeqsUpTo(Orgs, MaxWork) :
            Len(Flatten([i \in DOMAIN b |-> OrgRepos(b[i])])) <= MaxWork } }

Init ==
    /\ token \in BOOLEAN
    /\ args \in ArgChoices
    /\ dataExists \in BOOLEAN
    /\ mainPc = "start"
    /\ orgs = <<>>
    /\ acc = <<>>
    /\ repos = <<>>
    /\ nxt = 1
    /\ pl = <<>>
    /\ exited = FALSE
    /\ apiLog = <<>>
    /\ apiFailed = FALSE
    /\ firstFail = 0

\* ------------------------------------------------------------------- main

\* main, lines 18-23: the token is required; then the mode is chosen.
Start ==
    /\ mainPc = "start"
    /\ mainPc' = IF ~token THEN "panicked"
                 ELSE IF Len(args) # 1 THEN "explicit" ELSE "list_orgs"
    /\ nxt' = 2
    /\ UNCHANGED <<token, args, dataExists, orgs, acc, repos, pl, exited,
                   apiLog, apiFailed>>
    /\ UNCHANGED firstFail

\* main, lines 29-32: task.await? on the repos_of_org of the next argument;
\* after the last one the lists are flattened.
ExplicitFetch ==
    /\ mainPc = "explicit"
    /\ nxt <= Len(args)
    /\ \E ans \in ApiAnswers(OrgRepos(args[nxt])) :
         LET res == ReposOfOrg(ans) IN
         IF IsOk(res)
         THEN /\ acc' = Append(acc, res.repos)
              /\ apiLog' = Append(apiLog, [org |-> args[nxt], repos |-> res.repos])
              /\ apiFailed' = (apiFailed \/ ~res.ok)
              /\ IF nxt = Len(args)
                 THEN /\ repos' = Flatten(acc')
                      /\ mainPc' = "fanout"
                      /\ nxt' = 1
                 ELSE /\ nxt' = nxt + 1
                      /\ UNCHANGED <<repos, mainPc>>
         ELSE /\ mainPc' = "done_err"
              /\ acc' = <<>>
              /\ apiFailed' = TRUE
              /\ UNCHANGED <<repos, nxt, apiLog>>
    /\ UNCHANGED <<token, args, dataExists, orgs, pl, exited>>
    /\ UNCHANGED firstFail

\* list_repositories, lines 95-111: the organizations the token sees.
ListOrgs ==
    /\ mainPc = "list_orgs"
    /\ \E ans \in ApiAnswers(VisibleOrgs) :
         IF IsOk(ans)
         THEN /\ orgs' = (IF ans.some THEN ans.body ELSE <<>>)
              /\ mainPc' = "list_repos"
              /\ apiFailed' = (apiFailed \/ ~ans.ok)
         ELSE /\ mainPc' = "done_err"
              /\ apiFailed' = TRUE
              /\ UNCHANGED orgs
    /\ UNCHANGED <<token, args, dataExists, acc, repos, nxt, pl, exited, apiLog>>
    /\ UNCHANGED firstFail

\* list_repositories, lines 112-119: the next organization's repositories,
\* filtered, are added to buf.
ListRepos ==
    /\ mainPc = "list_repos"
    /\ orgs # <<>>
    /\ \E ans \in ApiAnswers(OrgRepos(Head(orgs))) :
         LET res == ReposOfOrg(ans) IN
         IF IsOk(res)
         THEN /\ acc' = acc \o FilterRepos(res.repos)
              /\ apiLog' = Append(apiLog, [org |-> Head(orgs), repos |-> res.repos])
              /\ apiFailed' = (apiFailed \/ ~res.ok)
              /\ orgs' = Tail(orgs)
              /\ UNCHANGED mainPc
         ELSE /\ mainPc' = "done_err"
              /\ acc' = <<>>
              /\ orgs' = <<>>
              /\ apiFailed' = TRUE
              /\ UNCHANGED apiLog
    /\ UNCHANGED <<token, args, dataExists, repos, nxt, pl, exited>>
    /\ UNCHANGED firstFail

\* list_repositories, line 122, and main, line 34: Ok(buf) becomes repos.
ListDone ==
    /\ mainPc = "list_repos"
    /\ orgs = <<>>
    /\ repos' = acc
    /\ mainPc' = "fanout"
    /\ nxt' = 1
    /\ UNCHANGED <<token, args, dataExists, orgs, acc, pl, exited, apiLog, apiFailed>>
    /\ UNCHANGED firstFail

\* main, lines 39-42: one task per repo of the work set.
Spawn ==
    /\ mainPc = "fanout"
    /\ nxt <= Len(repos)
    /\ pl' = Append(pl, NewTask(repos[nxt]))
    /\ nxt' = nxt + 1
    /\ UNCHANGED <<token, args, dataExists, mainPc, orgs, acc, repos, exited,
                   apiLog, apiFailed>>
    /\ UNCHANGED firstFail

\* main, line 44: the first loop is over, the second starts.
FanoutDone ==
    /\ mainPc = "fanout"
    /\ nxt > Len(repos)
    /\ mainPc' = "awaiting"
    /\ nxt' = 1
    /\ UNCHANGED <<token, args, dataExists, orgs, acc, repos, pl, exited,
                   apiLog, apiFailed>>
    /\ UNCHANGED firstFail

\* What task.await?? makes of a finished task: main goes on, or returns.
JoinedOkAlways(p) == TRUE

\* A validation that panicked would not stop main.
JoinedOkPanicIgnored(p) == p.result = "ok" \/ p.err = "parse"

JoinedOk(p) == p.result = "ok"

\* main, lines 44-46: task.await?? on the next task, in spawn order.
Join ==
    /\ mainPc = "awaiting"
    /\ nxt <= Len(pl)
    /\ pl[nxt].pc = "done"
    /\ IF JoinedOk(pl[nxt])
       THEN /\ nxt' = nxt + 1
            /\ UNCHANGED mainPc
       ELSE /\ mainPc' = "done_err"
            /\ UNCHANGED nxt
    /\ UNCHANGED <<token, args, dataExists, orgs, acc, repos, pl, exited,
                   apiLog, apiFailed>>
    /\ UNCHANGED firstFail

\* main, line 48: every task was joined.
MainReturnOk ==
    /\ mainPc = "awaiting"
    /\ nxt > Len(pl)
    /\ mainPc' = "done_ok"
    /\ UNCHANGED <<token, args, dataExists, orgs, acc, repos, nxt, pl, exited,
                   apiLog, apiFailed>>
    /\ UNCHANGED firstFail

MainReturned == mainPc \in {"done_ok", "done_err", "panicked"}

\* ------------------------------------------------------------- the tasks

mainVars == <<token, args, dataExists, mainPc, orgs, acc, repos, nxt, exited,
              apiLog, apiFailed>>

\* handle, lines 126-130: the moment a task's future resolves to Err. The
\* first such moment of the run is recorded.
FirstFailure(i) ==
    firstFail' = IF firstFail = 0 /\ pl'[i].result = "err" THEN i ELSE firstFail

\* A task is polled until it has returned or the runtime has dropped it.
Alive(i) == pl[i].pc \notin {"done", "cancelled"} /\ ~exited

\* git_pull, lines 135-145: TempDir::new_in fails when .data is missing (or
\* no name is free); else the directory exists and git is started.
GitPullStart(i) ==
    /\ Alive(i)
    /\ pl[i].pc = "spawned"
    /\ IF dataExists /\ FreeNames # {}
       THEN \E n \in FreeNames :
              pl' = [pl EXCEPT ![i] = [@ EXCEPT !.ws = n, !.wsState = "live",
                                                !.pc = "pulling"]]
       ELSE pl' = [pl EXCEPT ![i] = Return(@, "err", "tempdir")]
    /\ FirstFailure(i)
    /\ UNCHANGED mainVars

\* How the git process can end: it could not be spawned, it exited with a
\* failure status, or it exited with 0.
GitOutcomes == {"spawn_err", "nonzero", "ok"}

\* with_context(..)? on output().await: an Err only when the process could
\* not be run; the exit status in the Output is not read.
GitPullOk(outcome) == outcome # "spawn_err"

\* git_pull, lines 138-148, and handle, lines 127-128.
GitPullDone(i) ==
    /\ Alive(i)
    /\ pl[i].pc = "pulling"
    /\ \E outcome \in GitOutcomes :
         IF GitPullOk(outcome)
         THEN pl' = [pl EXCEPT ![i] =
                       [@ EXCEPT !.git = outcome, !.pc = "walking",
                                 !.stack = << [dir |-> <<>>, open |-> FALSE, todo |-> {}] >>]]
         ELSE pl' = [pl EXCEPT ![i] = Return([@ EXCEPT !.git = outcome], "err", "spawn")]
    /\ FirstFailure(i)
    /\ UNCHANGED mainVars

Top(p) == p.stack[Len(p.stack)]

SetTop(p, frame) == [p EXCEPT !.stack[Len(p.stack)] = frame]

\* A return from a nested call that leaves the walk where it was.
PopNothing(p) == p

Pop(p) == [p EXCEPT !.stack = SubSeq(@, 1, Len(@) - 1)]

\* check_all_files, lines 153-155: read_dir(dir).await, with its ?.
ReadDir(i) ==
    /\ Alive(i)
    /\ pl[i].pc = "walking"
    /\ ~Top(pl[i]).open
    /\ \E io \in BOOLEAN :
         LET p == pl[i]
             f == Top(p)
         IN IF io
            THEN pl' = [pl EXCEPT ![i] =
                          SetTop(p, [dir |-> f.dir, open |-> TRUE,
                                     todo |-> Children(WsTree(p), f.dir)])]
            ELSE pl' = [pl EXCEPT ![i] = Return(p, "err", "walk")]
    /\ FirstFailure(i)
    /\ UNCHANGED mainVars

\* check_all_files, line 168: the entries given to check_file.
IsCandidate(ty, path) == ty = "file" /\ PathEndsWith(path, TsPattern)

\* A walk that would start check_file on a blocking worker and go on.
SpawnBlockingNotAwaited == "walking"

\* check_all_files, line 170: spawn_blocking(..).await suspends the walk
\* until the call has ended.
SpawnBlockingAwait == "checking"

\* check_all_files, lines 157-174: one turn of the loop. The stream is at its
\* end (the call returns Ok, to its caller's loop or to handle), or it yields
\* an entry, in any order: a directory is entered, a candidate is given to
\* check_file on a blocking worker, anything else is passed over. next_entry
\* and file_type can fail.
NextEntry(i) ==
    /\ Alive(i)
    /\ pl[i].pc = "walking"
    /\ Top(pl[i]).open
    /\ LET p == pl[i]
           f == Top(p)
       IN IF f.todo = {}
          THEN pl' = [pl EXCEPT ![i] =
                        IF Len(p.stack) = 1 THEN Return(p, "ok", "none") ELSE Pop(p)]
          ELSE \E e \in f.todo, io \in {"ok", "next_entry", "file_type"} :
                 LET ty == WsTree(p)[e].ty
                     q  == SetTop(p, [f EXCEPT !.todo = @ \ {e}])
                 IN IF io # "ok"
                    THEN pl' = [pl EXCEPT ![i] = Return(p, "err", "walk")]
                    ELSE IF ty = "dir"
                    THEN pl' = [pl EXCEPT ![i] =
                                  [q EXCEPT !.stack = Append(@, [dir |-> e, open |-> FALSE,
                                                                 todo |-> {}])]]
                    ELSE IF IsCandidate(ty, FullPath(p, e))
                    THEN pl' = [pl EXCEPT ![i] =
                                  [q EXCEPT !.pc = SpawnBlockingAwait, !.blk = TRUE,
                                            !.cur = FullPath(p, e),
                                            !.validated = @ \cup {e}]]
                    ELSE pl' = [pl EXCEPT ![i] = q]
    /\ FirstFailure(i)
    /\ UNCHANGED mainVars

\* check_all_files, line 170, and check_file: the blocking call ends. The
\* task that awaits it takes the result through ??: a panic (a JoinError) and
\* an Err both end the walk. A call whose task was dropped ends unobserved.
CheckFileDone(i) ==
    /\ i \in Tasks
    /\ pl[i].blk
    /\ ~exited
    /\ LET p == pl[i]
           file == RelPath(p.cur)
           out == CheckFile(p.wsState = "live", WsTree(p)[file].content, p.cur)
           q == [p EXCEPT !.blk = FALSE, !.cur = <<>>,
                          !.outcomes = @ \cup {[file |-> file, out |-> out,
                                                present |-> p.wsState = "live"]},
                          !.diags = IF out.diag THEN @ \cup {file} ELSE @]
       IN pl' = [pl EXCEPT ![i] =
                   IF p.pc # "checking" THEN q
                   ELSE IF out.kind = "ok" THEN [q EXCEPT !.pc = "walking"]
                   ELSE Return(q, "err", IF out.kind = "panic" THEN "parse" ELSE "load")]
    /\ FirstFailure(i)
    /\ UNCHANGED mainVars

\* The runtime is dropped when main has returned: a task that has not
\* finished is dropped where it is suspended, and with it the TempDir it
\* holds; a check_file already running goes on.
Cancel(i) ==
    /\ MainReturned
    /\ Alive(i)
    /\ pl' = [pl EXCEPT ![i] = [DropTempDir(@) EXCEPT !.pc = "cancelled", !.stack = <<>>]]
    /\ FirstFailure(i)
    /\ UNCHANGED mainVars

\* The runtime's drop ends when no task is left and no blocking call runs.
Exit ==
    /\ MainReturned
    /\ ~exited
    /\ \A i \in Tasks : pl[i].pc \in {"done", "cancelled"} /\ ~pl[i].blk
    /\ exited' = TRUE
    /\ UNCHANGED <<token, args, dataExists, mainPc, orgs, acc, repos, nxt, pl,
                   apiLog, apiFailed>>
    /\ UNCHANGED firstFail

Next ==
    \/ Start
    \/ ExplicitFetch
    \/ ListOrgs
    \/ ListRepos
    \/ ListDone
    \/ Spawn
    \/ FanoutDone
    \/ Join
    \/ MainReturnOk
    \/ \E i \in Tasks : GitPullStart(i)
    \/ \E i \in Tasks : GitPullDone(i)
    \/ \E i \in Tasks : ReadDir(i)
    \/ \E i \in Tasks : NextEntry(i)
    \/ \E i \in Tasks : CheckFileDone(i)
    \/ \E i \in Tasks : Cancel(i)
    \/ Exit

Spec == Init /\ [][Next]_vars

\* The steps of main's own future, which block_on polls to its end.
MainStep ==
    \/ Start
    \/ ExplicitFetch
    \/ ListOrgs
    \/ ListRepos
    \/ ListDone
    \/ Spawn
    \/ FanoutDone
    \/ Join
    \/ MainReturnOk

\* The steps of the i-th spawned task, polled by the runtime's workers.
TaskStep(i) ==
    /\ i \in Tasks
    /\ (GitPullStart(i) \/ GitPullDone(i) \/ ReadDir(i) \/ NextEntry(i))

\* The run under fair scheduling: main's future and every spawned task are
\* polled while they can proceed, every external operation and every blocking
\* check_file returns, and the runtime's shutdown runs to its end.
FairSpec ==
    /\ Spec
    /\ WF_vars(MainStep)
    /\ \A i \in 1..MaxWork : WF_vars(TaskStep(i))
    /\ \A i \in 1..MaxWork : WF_vars(CheckFileDone(i))
    /\ \A i \in 1..MaxWork : WF_vars(i \in Tasks /\ Cancel(i))
    /\ WF_vars(Exit)

\* ----------------------------------------------------------------- claims

\* main has returned Ok (exit status 0) or Err (non-zero).
Done == mainPc \in {"done_ok", "done_err"}

\* A file given to check_file failed to parse: its diagnostic was emitted.
ParseFailed == \E i \in Tasks : pl[i].diags # {}

\* Discovery, acquisition and traversal all succeeded: whatever failed, it
\* was a parse.
OnlyParseFailures ==
    /\ ~apiFailed
    /\ \A i \in Tasks : pl[i].err \in {"none", "parse"} /\ pl[i].git \in {"none", "ok"}

\* C1, as amended: a parse failure is fatal for the run. Once a file given to
\* check_file has failed to parse, main does not return Ok: when it has
\* returned, it has returned Err.
C1_ParseFailureIsFatal == (Done /\ ParseFailed) => mainPc = "done_err"

\* C1's case: nothing failed but a parse, and main has returned Err.
C1_Witness == mainPc = "done_err" /\ ParseFailed /\ OnlyParseFailures

\* C1, as claimed: when discovery, acquisition and traversal succeed and a
\* visited file fails to parse, main still returns Ok.
C1_ParseFailureNonFatal == (Done /\ ParseFailed /\ OnlyParseFailures) => mainPc = "done_ok"

\* C2, as claimed: when the git process of a repository could not be spawned
\* or exited with a failure status, the run ends in Done(failure).
C2_AcquisitionFailureIsFatal ==
    (Done /\ \E i \in Tasks : pl[i].git \in {"spawn_err", "nonzero"}) => mainPc = "done_err"

\* One path lies in or at the other.
IsPrefix(a, b) == Len(a) <= Len(b) /\ SubSeq(b, 1, Len(a)) = a

\* C3: two tasks that hold a workspace hold distinct directories, neither
\* inside the other; a task that is pulling, walking or checking has its
\* workspace on disk; and a task that has returned, with Ok or with any
\* error, has no workspace left: the one it created was removed exactly once.
C3_WorkspaceIsolation ==
    /\ \A i, j \in Tasks :
         (i # j /\ pl[i].wsState = "live" /\ pl[j].wsState = "live")
           => /\ ~IsPrefix(FullPath(pl[i], <<>>), FullPath(pl[j], <<>>))
              /\ ~IsPrefix(FullPath(pl[j], <<>>), FullPath(pl[i], <<>>))
    /\ \A i \in Tasks :
         pl[i].pc \in {"pulling", "walking", "checking"} => pl[i].wsState = "live"
    /\ \A i \in Tasks :
         pl[i].pc = "done"
           => /\ pl[i].wsState # "live"
              /\ pl[i].result \in {"ok", "err"}
              /\ IF pl[i].err = "tempdir"
                 THEN pl[i].wsState = "none" /\ pl[i].dels = 0
                 ELSE pl[i].wsState = "deleted" /\ pl[i].dels = 1

\* C3's case: two tasks hold a workspace at once, one of them walking.
C3_Witness ==
    \E i, j \in Tasks :
      /\ i # j
      /\ pl[i].wsState = "live" /\ pl[i].pc = "walking"
      /\ pl[j].wsState = "live"

\* The work set is resolved: main's repos holds it.
Resolved == ~apiFailed /\ mainPc \in {"fanout", "awaiting", "done_ok", "done_err"}

\* The repositories the hosting API returned, over all listings.
Returned == UNION {Range(apiLog[k].repos) : k \in DOMAIN apiLog}

\* C4: in full-discovery mode a repository the API returned is in the work
\* set iff it is neither archived nor a fork; in explicit mode every
\* repository the API returned is in it. Nothing else is.
C4_Filtering ==
    Resolved =>
      /\ Range(repos) \subseteq Returned
      /\ \A r \in Returned :
           IF Len(args) = 1
           THEN (r \in Range(repos)) <=> (~r.archived /\ ~r.fork)
           ELSE r \in Range(repos)

\* C4's case: full discovery has resolved a work set from listings that held
\* a fork, an archived repository and one that is neither.
C4_Witness ==
    /\ Resolved
    /\ Len(args) = 1
    /\ \E r \in Returned : r.fork
    /\ \E r \in Returned : r.archived
    /\ \E r \in Returned : ~r.fork /\ ~r.archived /\ r \in Range(repos)

\* Every directory above the entry is a directory entry of the tree.
ReachableViaDirs(tree, q) ==
    \A k \in 1..(Len(q) - 1) : tree[SubSeq(q, 1, k)].ty = "dir"

\* A file name that ends in the characters of suffix: what the specification
\* calls a name ending in the recognized suffix.
NameEndsWith(name, suffix) ==
    /\ Len(suffix) <= Len(name)
    /\ SubSeq(name, Len(name) - Len(suffix) + 1, Len(name)) = suffix

\* The regular files whose name ends in ".ts", reachable through directories.
TsFiles(tree) ==
    {q \in DOMAIN tree : /\ tree[q].ty = "file"
                         /\ NameEndsWith(q[Len(q)], DotTs)
                         /\ ReachableViaDirs(tree, q)}

\* C5, as claimed: when a walk has ended without an error, the files given to
\* check_file are exactly the regular files whose name ends in ".ts" that
\* are reachable through directories.
C5_TraversalCompleteness ==
    \A i \in Tasks :
      (pl[i].pc = "done" /\ pl[i].result = "ok")
        => pl[i].validated = TsFiles(WsTree(pl[i]))

\* The files check_all_files takes for candidates in the task's directory.
Candidates(p) ==
    {q \in DOMAIN WsTree(p) : /\ IsCandidate(WsTree(p)[q].ty, << DotData, TmpName(1) >> \o q)
                              /\ ReachableViaDirs(WsTree(p), q)}

\* C6, as amended: a parse failure ends the walk. Once the diagnostic of a
\* file is out, the task is over (handle has returned Err, or the task was
\* dropped), nothing of it is in flight, only that one file has failed, and
\* the files validated are those whose check_file has ended: no file is
\* validated after the failure.
C6_ParseFailureStopsWalk ==
    \A i \in Tasks :
      pl[i].diags # {}
        => /\ pl[i].pc \in {"done", "cancelled"}
           /\ pl[i].pc = "done" => (pl[i].result = "err" /\ pl[i].err = "parse")
           /\ ~pl[i].blk
           /\ Cardinality(pl[i].diags) = 1
           /\ pl[i].validated = {o.file : o \in pl[i].outcomes}

\* C6's case: handle has returned with a parse failure and a candidate file
\* of the repository was never validated.
C6_Witness ==
    \E i \in Tasks :
      /\ pl[i].pc = "done" /\ pl[i].err = "parse"
      /\ Candidates(pl[i]) \ pl[i].validated # {}

\* C6, as claimed: when a file of a repository has failed to parse, every
\* other candidate file of the repository is validated before the pipeline
\* ends.
C6_BestEffortPerFile ==
    \A i \in Tasks :
      (pl[i].pc = "done" /\ pl[i].diags # {})
        => Candidates(pl[i]) \subseteq pl[i].validated

\* C7: when a hosting-API call has failed, main has returned Err, no task
\* was spawned (so no workspace exists), and the repositories obtained from
\* earlier organizations are gone.
C7_DiscoveryFailureIsFatal ==
    apiFailed => /\ mainPc = "done_err"
                 /\ pl = <<>>
                 /\ repos = <<>>
                 /\ acc = <<>>

\* C7's case: a listing failed after an earlier one had returned repositories.
C7_Witness == apiFailed /\ \E k \in DOMAIN apiLog : apiLog[k].repos # <<>>

\* The content of the file a check_file call was given.
ContentOf(p, o) == WsTree(p)[o.file].content

\* C8, as amended: check_file returns Ok for a file that loads and is well
\* formed; for a file with a syntax error it emits the diagnostic and panics,
\* so the blocking task crashes and no value carrying the path comes back
\* (the awaiting task, if it still exists, ends with that join error); it
\* returns an Err that carries the path only when the file cannot be loaded.
C8_CheckFileOutcome ==
    \A i \in Tasks : \A o \in pl[i].outcomes :
      LET loads == o.present /\ ContentOf(pl[i], o) # "undecodable" IN
      /\ (loads /\ ContentOf(pl[i], o) = "valid")
           => (o.out.kind = "ok" /\ ~o.out.diag)
      /\ (loads /\ ContentOf(pl[i], o) = "malformed")
           => /\ o.out.kind = "panic"
              /\ o.out.diag
              /\ o.out.path = <<>>
              /\ pl[i].pc = "done" => pl[i].err = "parse"
      /\ ~loads
           => (o.out.kind = "err" /\ ~o.out.diag /\ RelPath(o.out.path) = o.file)

\* C8's case: a check_file call on a file with a syntax error has ended.
C8_Witness ==
    \E i \in Tasks : \E o \in pl[i].outcomes :
      o.present /\ ContentOf(pl[i], o) = "malformed" /\ o.out.kind = "panic"

\* C8, as claimed: on a file with a syntax error check_file returns a failure
\* value that carries the file's path and a diagnostic, and the validating
\* task never crashes.
C8_FailureValueNoCrash ==
    \A i \in Tasks : \A o \in pl[i].outcomes :
      /\ o.out.kind # "panic"
      /\ (o.present /\ ContentOf(pl[i], o) = "malformed")
           => (o.out.kind = "err" /\ o.out.diag /\ RelPath(o.out.path) = o.file)

\* A tree of the end-to-end scenario: among its .ts files, all named the usual
\* way (a stem, then the suffix), one is valid and one is not.
ScenarioTree(tree) ==
    /\ \A q \in TsFiles(tree) : Len(q[Len(q)]) > Len(DotTs)
    /\ Cardinality({q \in TsFiles(tree) : tree[q].content = "valid"}) = 1
    /\ Cardinality({q \in TsFiles(tree) : tree[q].content = "malformed"}) = 1
    /\ Cardinality(TsFiles(tree)) = 2

\* The end-to-end scenario: two organization names, each resolving to one
\* repository with such a tree, and every discovery, acquisition and
\* traversal step succeeding.
EndToEndScenario ==
    /\ Len(args) = 3
    /\ args[2] # args[3]
    /\ ~apiFailed
    /\ Len(apiLog) = 2
    /\ \A k \in DOMAIN apiLog : Len(apiLog[k].repos) = 1
    /\ Len(pl) = 2
    /\ \A i \in Tasks : /\ pl[i].git = "ok"
                        /\ pl[i].err \in {"none", "parse"}
                        /\ ScenarioTree(WsTree(pl[i]))

\* C9, as claimed: in the end-to-end scenario the finished run has emitted
\* exactly two diagnostics, one per invalid file, has validated both valid
\* files without error, and main has returned Ok.
C9_EndToEnd ==
    (EndToEndScenario /\ exited)
      => /\ mainPc = "done_ok"
         /\ \A i \in Tasks :
              LET tree == WsTree(pl[i]) IN
              /\ pl[i].diags = {q \in TsFiles(tree) : tree[q].content = "malformed"}
              /\ Cardinality(pl[i].diags) = 1
              /\ \A q \in TsFiles(tree) :
                   tree[q].content = "valid"
                     => \E o \in pl[i].outcomes : o.file = q /\ o.out.kind = "ok"

\* C10, as amended: main returns Ok only after every task has finished, and
\* with Ok; it returns Err as soon as it has joined the first task, in spawn
\* order, that failed: the tasks before it have finished with Ok, the tasks
\* after it may still run.
C10_JoinInSpawnOrder ==
    /\ mainPc = "done_ok"
         => /\ Len(pl) = Len(repos)
            /\ \A i \in Tasks : pl[i].pc = "done" /\ pl[i].result = "ok"
    /\ (mainPc = "done_err" /\ ~apiFailed)
         => /\ nxt \in Tasks
            /\ pl[nxt].pc = "done" /\ pl[nxt].result = "err"
            /\ \A j \in 1..(nxt - 1) : pl[j].pc = "done" /\ pl[j].result = "ok"

\* C10's case: main has returned Err while a task it spawned is still running.
C10_Witness ==
    /\ mainPc = "done_err"
    /\ \E j \in Tasks : pl[j].pc \in {"pulling", "walking", "checking"}

\* C10, as claimed: main is in a Done state only when every task it spawned
\* has finished.
C10_JoinAllBeforeDone ==
    Done => \A i \in Tasks : pl[i].pc \in {"done", "cancelled"}

\* C11, as amended: a spawned task runs to its own completion unless main
\* returns first. A task is dropped only after main has returned Err on a
\* task spawned before it; a dropped task never returned, and the workspace
\* it held was removed by the drop. When main has returned Ok no task was
\* dropped.
C11_DroppedOnlyAfterMainErr ==
    \A i \in Tasks :
      pl[i].pc = "cancelled"
        => /\ mainPc = "done_err"
           /\ nxt < i
           /\ pl[nxt].pc = "done" /\ pl[nxt].result = "err"
           /\ pl[i].result = "none"
           /\ pl[i].wsState # "live"
           /\ pl[i].stack = <<>>

\* C11's case: a sibling has failed, main has seen it, and a task that had
\* acquired its workspace and was walking or validating has been dropped.
C11_Witness ==
    \E i \in Tasks :
      /\ pl[i].pc = "cancelled"
      /\ pl[i].git = "ok"
      /\ pl[i].wsState = "deleted"

\* C11, as claimed: no task is ever dropped before it has completed, so a
\* spawned task is always still running or has returned from handle.
C11_NoCancellation ==
    \A i \in Tasks : pl[i].pc # "cancelled"

\* The tasks whose handle has returned Err.
Failed == {i \in Tasks : pl[i].result = "err"}

\* C12, as amended: when main returns Err because of a task, the task whose
\* error it returns is the failed task that is earliest in spawn order,
\* whichever task failed first in time; every task spawned before it
\* returned Ok. For a given set of failed tasks the reported error is fixed.
C12_EarliestSpawnedReported ==
    (mainPc = "done_err" /\ ~apiFailed)
      => /\ nxt \in Failed
         /\ \A j \in Failed : nxt <= j
         /\ \A j \in 1..(nxt - 1) : pl[j].pc = "done" /\ pl[j].result = "ok"

\* C12's case: two tasks have failed, the one spawned second failed first in
\* time, and main has returned the error of the one spawned first.
C12_Witness ==
    /\ mainPc = "done_err"
    /\ Cardinality(Failed) >= 2
    /\ firstFail = 2
    /\ nxt = 1

\* C12, as claimed: the error main returns is the one of the task that
\* failed first in time.
C12_FirstInTimeReported ==
    (mainPc = "done_err" /\ ~apiFailed) => nxt = firstFail

\* A traversal step of the task failed: read_dir, next_entry or file_type.
WalkFailed(i) == pl[i].err = "walk"

\* C13: a failed traversal step ends the walk at once. Every enclosing
\* check_all_files call has returned, handle has returned Err and dropped
\* the workspace, no validation of the task is left running, and when main
\* has returned it has returned Err.
C13_TraversalFailureIsFatal ==
    \A i \in Tasks :
      WalkFailed(i)
        => /\ pl[i].pc = "done"
           /\ pl[i].result = "err"
           /\ pl[i].stack = <<>>
           /\ ~pl[i].blk
           /\ pl[i].wsState = "deleted"
           /\ Done => mainPc = "done_err"

\* C13's case: discovery and acquisition succeeded, a traversal step failed
\* after the walk had already validated a file, and main has returned.
C13_Witness ==
    /\ Done
    /\ ~apiFailed
    /\ \E i \in Tasks :
         /\ WalkFailed(i)
         /\ pl[i].git = "ok"
         /\ pl[i].outcomes # {}

\* The files of task i given to check_file whose call has not ended.
InFlight(i) == pl[i].validated \ {o.file : o \in pl[i].outcomes}

\* C14, as amended: within one task the validations run one at a time. At
\* most one check_file call of a task is in flight; while one is, the walk
\* is suspended on it (or the task was dropped), and a walk that is reading
\* entries has none in flight.
C14_OneValidationAtATime ==
    \A i \in Tasks :
      /\ Cardinality(InFlight(i)) <= 1
      /\ pl[i].blk <=> InFlight(i) # {}
      /\ pl[i].blk => pl[i].pc \in {"checking", "cancelled"}
      /\ pl[i].pc = "walking" => InFlight(i) = {}

\* C14's case: a validation is in flight while the same task has another
\* candidate file it has not given to check_file yet.
C14_Witness ==
    \E i \in Tasks :
      /\ pl[i].blk
      /\ pl[i].pc = "checking"
      /\ Candidates(pl[i]) \ pl[i].validated # {}

\* C14, as claimed: the walk does not wait for a validation to finish:
\* while one is in flight and the task is running, the walk can take its
\* next step, so that a second validation can start beside the first.
C14_WalkDoesNotWait ==
    \A i \in Tasks :
      (pl[i].blk /\ Alive(i)) => ENABLED (ReadDir(i) \/ NextEntry(i))

\* C15: acquisition creates the staging root .data when it is absent: once
\* a task's git_pull has been through TempDir::new_in the directory .data
\* exists, and the task did not fail for want of its workspace.
C15_StagingRootCreated ==
    \A i \in Tasks :
      (pl[i].pc = "done" \/ pl[i].wsState # "none")
        => /\ dataExists
           /\ pl[i].err # "tempdir"

RECURSIVE ListingsUpTo(_, _)
\* The first k listings of the log, one after the other; in full discovery
\* each listing is first reduced to the repositories that are kept.
ListingsUpTo(filtered, k) ==
    IF k = 0 THEN <<>>
    ELSE ListingsUpTo(filtered, k - 1) \o
         (IF filtered
          THEN SelectSeq(apiLog[k].repos, LAMBDA r : ~r.archived /\ ~r.fork)
          ELSE apiLog[k].repos)

\* The organizations whose repositories were listed, in call order.
ListedOrgs == [k \in DOMAIN apiLog |-> apiLog[k].org]

\* C16: in explicit mode the repositories of each organization argument are
\* listed exactly once, in argument order, and the work set is the lists one
\* after the other, copies kept; in full discovery each visible organization
\* is listed once. One task is spawned per descriptor of the work set, in
\* order, and two tasks for the same repository that both hold a workspace
\* hold different ones.
C16_OnePipelinePerDescriptor ==
    Resolved =>
      /\ IF Len(args) > 1
         THEN /\ ListedOrgs = Tail(args)
              /\ repos = ListingsUpTo(FALSE, Len(apiLog))
         ELSE /\ ListedOrgs \in {<<>>, VisibleOrgs}
              /\ repos = ListingsUpTo(TRUE, Len(apiLog))
      /\ Len(pl) <= Len(repos)
      /\ mainPc # "fanout" => Len(pl) = Len(repos)
      /\ \A i \in Tasks : pl[i].repo = repos[i]
      /\ \A i, j \in Tasks :
           (i # j /\ pl[i].repo = pl[j].repo
              /\ pl[i].wsState = "live" /\ pl[j].wsState = "live")
             => pl[i].ws # pl[j].ws

\* C16's case: the same organization was given twice, its repository is in
\* the work set twice, and both tasks spawned for it hold a workspace.
C16_Witness ==
    /\ Resolved
    /\ Len(args) = 3
    /\ args[2] = args[3]
    /\ Len(pl) = 2
    /\ pl[1].repo = pl[2].repo
    /\ pl[1].wsState = "live" /\ pl[2].wsState = "live"
    /\ pl[1].ws # pl[2].ws

\* C17: a check_file call that is executing on a blocking worker has the
\* workspace of its task present on disk, in every state, those after main
\* has returned early and the remaining tasks were dropped included.
C17_ValidationHasWorkspace ==
    \A i \in Tasks : pl[i].blk => pl[i].wsState = "live"

\* A workspace of the run is on disk.
WorkspaceRemains == \E i \in Tasks : pl[i].wsState = "live"

\* C18, as amended: when the process has exited, that is when main has
\* returned and the runtime has shut down, no workspace created by the run
\* remains; each workspace that was created was removed exactly once.
C18_NoWorkspaceAfterExit ==
    exited =>
      /\ ~WorkspaceRemains
      /\ \A i \in Tasks : pl[i].wsState = "deleted" <=> pl[i].dels = 1
      /\ \A i \in Tasks : pl[i].dels <= 1

\* C18's case: main returned Err while a sibling still held its workspace;
\* the sibling was dropped, and the process has exited.
C18_Witness ==
    /\ exited
    /\ mainPc = "done_err"
    /\ \E i \in Tasks : pl[i].pc = "cancelled" /\ pl[i].wsState = "deleted"
    /\ \E i \in Tasks : pl[i].pc = "done" /\ pl[i].wsState = "deleted"

\* C18, as claimed: whenever main has returned, with Ok or with Err, no
\* workspace created by the run remains.
C18_NoWorkspaceWhenDone ==
    Done => ~WorkspaceRemains

\* C19: under fair scheduling, with every external operation returning,
\* every run ends: the process exits, which needs every task to have
\* returned or been dropped and every check_file call to have ended; and a
\* run that had its token, so that main got past its first statement,
\* reaches Done, main having returned Ok or Err.
C19_Termination ==
    /\ <>exited
    /\ token => <>Done

\* C19's case: a run of two tasks has ended; one task walked its workspace
\* to the end and returned Ok, the other failed, and main returned Err.
C19_Witness ==
    /\ exited
    /\ mainPc = "done_err"
    /\ Len(pl) = 2
    /\ \E i \in Tasks : pl[i].git = "ok" /\ pl[i].result = "ok"
    /\ \E i \in Tasks : pl[i].result = "err"

====
